---------------------------- MODULE Spec2Model ----------------------------
(***************************************************************************)
(* Model of the title resolution engine of CNRomTranslator                 *)
(* (src/rom_fuzzy_translate.py, src/seq_utils.py).                         *)
(*                                                                         *)
(* Text is a sequence of characters; a character is a one-element string   *)
(* or, for a character outside ASCII, a string naming it:                  *)
(*   "fw(" "fw)" "fw[" "fw]" "fw," "fw!" "fw?" "fw:" "fw;" "fw-" "fw~"     *)
(*   "fwsp" "dun" "emdash"   the fullwidth punctuation of FW_MAP           *)
(*   "fwA"                   a fullwidth letter (in U+FF01-FF60, not in    *)
(*                           FW_MAP)                                       *)
(*   "cn0" "cn1" .. "cn10" "cn2b"  the CJK numerals of _CN_NUM_MAP         *)
(*                           ("cn2b" is the alternate form of two)         *)
(*   "tab" "dquote" "backtick"  the tab, the double quote, the backtick    *)
(*   "you" "xi"              two CJK letters (a title)                     *)
(*   "jian" "ti" ...         the CJK letters of the metadata markers       *)
(***************************************************************************)
EXTENDS Integers, Sequences, FiniteSets, TLC

VARIABLES
    norm_in,      \* SpecNorm: the string given to norm
    norm_pieces,  \* SpecNorm: how many pieces norm_in was built from
    norm_out,     \* SpecNorm: norm(norm_in)
    norm_out2,    \* SpecNorm: norm(norm(norm_in))
    tok_in,       \* SpecTok: the string given to extract_seq_tokens
    tok_pieces,   \* SpecTok: how many pieces tok_in was built from
    tok_out,      \* SpecTok: extract_seq_tokens(tok_in)
    tok_norm,     \* SpecTok: seq_normalize(tok_in)
    al_writes,    \* SpecAlias: the <<name, default>> entries load_aliases has
                  \* processed so far, in order
    al_default,   \* SpecAlias: the default of the subject being processed,
                  \* <<>> before the first subject and for a subject skipped
    amap,         \* SpecAlias: the alias table being built, as the sequence
                  \* of its <<key, canonical>> items in insertion order
    pc,           \* main: where the run is: "load", "score", "review",
                  \* "ask", "output", "done", or "exit2" (return 2)
    csv_rows,     \* main: the rows of <system>.csv
    alias_data,   \* main: the subjects of the alias JSON file
    rom_lines,    \* main: the lines of the ROM list
    seq,          \* main: args.seq
    cn2en,        \* main: the dict cn2en as its items <<cn, en>> in insertion
                  \* order; cn_list is its keys in that order
    alias_map,    \* main: alias_map
    cn_norm_seq,  \* main: cn_norm_seq
    roms,         \* main: roms
    results,      \* main: results, one record per title processed
    pending_idx,  \* main: pending_idx (1-based positions in results)
    counters,     \* main: [auto_ok, prompted]
    best_hist,    \* main: what best_match returned for each title processed,
                  \* <<idx, score>> (history)
    review_i,     \* main: the review loop's position in pending_idx (1-based)
    presented,    \* main: the prompts shown so far, each <<position of the
                  \* record in results, remaining>> (the operator's console)
    reply,        \* main: the operator's latest reply [ans, manual]
    out,          \* main: the <game> entries written to gamelist_generated.xml
    m_seq,        \* SpecMatch: whether digits_set is extract_seq_tokens
    m_query,      \* SpecMatch: query_raw
    m_query_norm, \* SpecMatch: query_norm
    m_score,      \* SpecMatch: WRatio against the query, per candidate string
    m_cn_norm,    \* SpecMatch: the corpus cn_norm given to best_match
    m_best        \* SpecMatch: best_match's result <<idx, score>>

normVars == <<norm_in, norm_pieces, norm_out, norm_out2>>
tokVars == <<tok_in, tok_pieces, tok_out, tok_norm>>
aliasVars == <<al_writes, al_default, amap>>
mainVars == <<pc, csv_rows, alias_data, rom_lines, seq, cn2en, alias_map,
              cn_norm_seq, roms, results, pending_idx, counters, best_hist,
              review_i, presented, reply, out>>
matchVars == <<m_seq, m_query, m_query_norm, m_score, m_cn_norm, m_best>>
vars == <<normVars, tokVars, aliasVars, mainVars, matchVars>>

\* the variables of a part of the model before that part has run
InitMatchVars ==
    /\ m_seq = FALSE
    /\ m_query = <<>>
    /\ m_query_norm = <<>>
    /\ m_score = <<>>
    /\ m_cn_norm = <<>>
    /\ m_best = <<0, 0>>

InitNormVars ==
    /\ norm_in = <<>>
    /\ norm_pieces = 0
    /\ norm_out = <<>>
    /\ norm_out2 = <<>>

InitTokVars ==
    /\ tok_in = <<>>
    /\ tok_pieces = 0
    /\ tok_out = {}
    /\ tok_norm = <<>>

InitAliasVars ==
    /\ al_writes = <<>>
    /\ al_default = <<>>
    /\ amap = <<>>

InitMainVars ==
    /\ pc = "idle"
    /\ csv_rows = <<>>
    /\ alias_data = <<>>
    /\ rom_lines = <<>>
    /\ seq = FALSE
    /\ cn2en = <<>>
    /\ alias_map = <<>>
    /\ cn_norm_seq = <<>>
    /\ roms = <<>>
    /\ results = <<>>
    /\ pending_idx = <<>>
    /\ counters = [auto_ok |-> 0, prompted |-> 0]
    /\ best_hist = <<>>
    /\ review_i = 1
    /\ presented = <<>>
    /\ reply = [ans |-> <<>>, manual |-> <<>>]
    /\ out = <<>>

----------------------------------------------------------------------------
(* Characters and character classes (Python's str and re semantics).       *)

UpperLetters == <<"A","B","C","D","E","F","G","H","I","J","K","L","M",
                  "N","O","P","Q","R","S","T","U","V","W","X","Y","Z">>
LowerLetters == <<"a","b","c","d","e","f","g","h","i","j","k","l","m",
                  "n","o","p","q","r","s","t","u","v","w","x","y","z">>

\* the lowercase of each uppercase letter
LowerOf == [c \in {UpperLetters[i] : i \in 1..Len(UpperLetters)} |->
               LowerLetters[CHOOSE i \in 1..Len(UpperLetters) : UpperLetters[i] = c]]

\* the uppercase of each lowercase letter
UpperOf == [c \in {LowerLetters[i] : i \in 1..Len(LowerLetters)} |->
               UpperLetters[CHOOSE i \in 1..Len(LowerLetters) : LowerLetters[i] = c]]

\* str.lower() on one character
LowerChar(c) == IF c \in DOMAIN LowerOf THEN LowerOf[c] ELSE c

\* str.upper() on one character
UpperChar(c) == IF c \in DOMAIN UpperOf THEN UpperOf[c] ELSE c

\* str.lower()
Lower(s) == [i \in 1..Len(s) |-> LowerChar(s[i])]

\* str.upper()
Upper(s) == [i \in 1..Len(s) |-> UpperChar(s[i])]

Digits == <<"0","1","2","3","4","5","6","7","8","9">>

\* \d
IsDigit(c) == c \in {"0","1","2","3","4","5","6","7","8","9"}

\* int() of one digit
DigitVal(c) == (CHOOSE i \in 1..Len(Digits) : Digits[i] = c) - 1

\* \s
IsSpace(c) == c \in {" ", "tab", "fwsp"}

\* the characters that are not \w: whitespace and punctuation
NonWordChars ==
    {" ", "tab", "fwsp", "(", ")", "[", "]", ",", "!", "?", ":", ";", "-", "~",
     ".", "'", "dquote", "backtick", "fw(", "fw)", "fw[", "fw]", "fw,", "fw!", "fw?",
     "fw:", "fw;", "fw-", "fw~", "dun", "emdash"}

\* \w
IsWordChar(c) == c \notin NonWordChars

\* FW_MAP: fullwidth punctuation to ASCII
FW_MAP ==
    [c \in {"fw,", "fw!", "fw?", "fw(", "fw)", "fw:", "fw;", "fw[", "fw]",
            "dun", "emdash", "fw-", "fw~", "fwsp"} |->
        CASE c = "fw," -> ","  [] c = "fw!" -> "!"  [] c = "fw?" -> "?"
          [] c = "fw(" -> "("  [] c = "fw)" -> ")"  [] c = "fw:" -> ":"
          [] c = "fw;" -> ";"  [] c = "fw[" -> "["  [] c = "fw]" -> "]"
          [] c = "dun" -> ","  [] c = "emdash" -> "-" [] c = "fw-" -> "-"
          [] c = "fw~" -> "~"  [] c = "fwsp" -> " "]

PUNCT == FW_MAP

\* the characters of [U+FF01-U+FF60, U+3000] the model names
FullwidthRange ==
    {"fw,", "fw!", "fw?", "fw(", "fw)", "fw:", "fw;", "fw-", "fw~", "fwsp", "fwA"}

----------------------------------------------------------------------------
(* Generic string helpers.                                                 *)

\* min and max of a set of numbers
Min(S) == CHOOSE x \in S : \A y \in S : x <= y
Max(S) == CHOOSE x \in S : \A y \in S : x >= y

\* s[i:] for a 1-based i
Tail_(s, i) == SubSeq(s, i, Len(s))

\* whether w occurs in s at position i
MatchAt(s, i, w) ==
    /\ i >= 1
    /\ i + Len(w) - 1 <= Len(s)
    /\ \A k \in 1..Len(w) : s[i + k - 1] = w[k]

\* w in s
Contains(s, w) == \E i \in 1..(Len(s) + 1) : MatchAt(s, i, w)

\* str.strip(chars) with the characters given as a predicate's set
RECURSIVE LStripSet(_, _)
LStripSet(s, cs) ==
    IF s # <<>> /\ s[1] \in cs THEN LStripSet(Tail(s), cs) ELSE s

RECURSIVE RStripSet(_, _)
RStripSet(s, cs) ==
    IF s # <<>> /\ s[Len(s)] \in cs
    THEN RStripSet(SubSeq(s, 1, Len(s) - 1), cs) ELSE s

StripSet(s, cs) == RStripSet(LStripSet(s, cs), cs)

SpaceChars == {" ", "tab", "fwsp"}

\* str.strip()
Strip(s) == StripSet(s, SpaceChars)

\* re.sub(r"\s+", " ", s)
RECURSIVE CollapseSpaces(_)
CollapseSpaces(s) ==
    IF s = <<>> THEN <<>>
    ELSE IF IsSpace(s[1])
         THEN <<" ">> \o CollapseSpaces(LStripSet(s, SpaceChars))
         ELSE <<s[1]>> \o CollapseSpaces(Tail(s))

----------------------------------------------------------------------------
(* norm (src/rom_fuzzy_translate.py:17-29).                                *)

\* s.translate(PUNCT)
Translate(s) ==
    [i \in 1..Len(s) |-> IF s[i] \in DOMAIN PUNCT THEN PUNCT[s[i]] ELSE s[i]]

\* re.sub(r"[U+FF01-U+FF60, U+3000]", lambda m: FW_MAP.get(ord(m.group(0)), m.group(0)), s)
FoldFullwidth(s) ==
    [i \in 1..Len(s) |->
        IF s[i] \in FullwidthRange /\ s[i] \in DOMAIN FW_MAP
        THEN FW_MAP[s[i]] ELSE s[i]]

\* s.replace(U+3000, ' ')
ReplaceIdeographicSpace(s) ==
    [i \in 1..Len(s) |-> IF s[i] = "fwsp" THEN " " ELSE s[i]]

\* the literal alternatives of the meta pattern
MetaWords ==
    {<<"jian", "ti">>, <<"fan", "ti">>, <<"zhong", "wen">>, <<"han", "hua">>,
     <<"ying", "hua">>, <<"po", "jie", "ban">>, <<"xiu", "zheng4", "ban">>,
     <<"xiu", "fu">>, <<"bu", "ding">>, <<"zheng3", "he">>, <<"he", "ji">>,
     <<"dian", "cang">>, <<"wan", "quan", "ban">>, <<"nian", "du", "ban">>,
     <<"hao", "hua2", "ban">>, <<"b","e","t","a">>, <<"d","e","m","o">>}

\* whether the meta pattern matches at position i of l, a lowercased string
\* (re.I): a literal alternative, v\d, or ver\.?\d
MetaAt(l, i) ==
    \/ \E w \in MetaWords : MatchAt(l, i, w)
    \/ /\ l[i] = "v"
       /\ \/ i + 1 <= Len(l) /\ IsDigit(l[i + 1])
          \/ MatchAt(l, i, <<"v","e","r">>) /\ i + 3 <= Len(l) /\ IsDigit(l[i + 3])
          \/ MatchAt(l, i, <<"v","e","r",".">>) /\ i + 4 <= Len(l) /\ IsDigit(l[i + 4])

\* whether the meta pattern matches somewhere in s
HasMeta(s) == LET l == Lower(s) IN \E i \in 1..Len(l) : MetaAt(l, i)

\* the position of the first character cl of s at or after i, 0 when none
FirstAt(s, i, cl) ==
    IF \E j \in i..Len(s) : s[j] = cl
    THEN CHOOSE j \in i..Len(s) : s[j] = cl /\ \A k \in i..(j - 1) : s[k] # cl
    ELSE 0

\* re.sub(rf"\((?=[^)]*{meta})[^)]*\)", "", s, flags=re.I) for op, cl = "(", ")":
\* a span from op to the first cl after it is removed when a marker lies between
RECURSIVE StripMetaSpans(_, _, _)
StripMetaSpans(s, op, cl) ==
    IF s = <<>> THEN <<>>
    ELSE LET j == FirstAt(s, 2, cl) IN
         IF s[1] = op /\ j > 0 /\ HasMeta(SubSeq(s, 2, j - 1))
         THEN StripMetaSpans(Tail_(s, j + 1), op, cl)
         ELSE <<s[1]>> \o StripMetaSpans(Tail(s), op, cl)

QuoteStripChars == {" ", "dquote", "'", "backtick"}

norm(s) ==
    LET s1 == Translate(s)
        s2 == FoldFullwidth(s1)
        s3 == ReplaceIdeographicSpace(s2)
        s4 == CollapseSpaces(Strip(s3))
        s5 == StripMetaSpans(s4, "(", ")")
        s6 == StripMetaSpans(s5, "[", "]")
        s7 == StripSet(s6, QuoteStripChars)
    IN  Strip(CollapseSpaces(s7))

----------------------------------------------------------------------------
(* seq_utils (src/seq_utils.py).                                           *)

\* _CN_NUM_MAP
CN_NUM_MAP ==
    [c \in {"cn0", "cn1", "cn2", "cn2b", "cn3", "cn4", "cn5", "cn6", "cn7",
            "cn8", "cn9", "cn10"} |->
        CASE c = "cn0" -> 0 [] c = "cn1" -> 1 [] c = "cn2" -> 2 [] c = "cn2b" -> 2
          [] c = "cn3" -> 3 [] c = "cn4" -> 4 [] c = "cn5" -> 5 [] c = "cn6" -> 6
          [] c = "cn7" -> 7 [] c = "cn8" -> 8 [] c = "cn9" -> 9 [] c = "cn10" -> 10]

\* the character class of the CJK numeral pattern (it leaves zero out)
CnNumeralChars ==
    {"cn1", "cn2", "cn2b", "cn3", "cn4", "cn5", "cn6", "cn7", "cn8", "cn9", "cn10"}

\* Python's None, where an int is expected (no numeral's value is negative)
None == -1

\* _CN_NUM_MAP.get(w, 0) for a string w
CnGet(w) == IF Len(w) = 1 /\ w[1] \in DOMAIN CN_NUM_MAP THEN CN_NUM_MAP[w[1]] ELSE 0

\* int(token) for a string of digits
RECURSIVE StrToInt(_)
StrToInt(s) ==
    IF s = <<>> THEN 0
    ELSE StrToInt(SubSeq(s, 1, Len(s) - 1)) * 10 + DigitVal(s[Len(s)])

\* str(v) for v >= 0
RECURSIVE IntToStr(_)
IntToStr(v) ==
    IF v < 10 THEN <<Digits[v + 1]>>
    ELSE IntToStr(v \div 10) \o <<Digits[(v % 10) + 1]>>

\* token.split(ten): parts[0], and parts[1]
SplitLeft(token) == SubSeq(token, 1, FirstAt(token, 1, "cn10") - 1)
SplitRight(token) ==
    LET i == FirstAt(token, 1, "cn10")
        j == FirstAt(token, i + 1, "cn10")
    IN  IF j = 0 THEN Tail_(token, i + 1) ELSE SubSeq(token, i + 1, j - 1)

chinese_numeral_to_int(tok) ==
    LET token == Strip(tok) IN
    IF token = <<>> THEN None
    ELSE IF \A i \in 1..Len(token) : IsDigit(token[i]) THEN StrToInt(token)
    ELSE IF token = <<"cn10">> THEN 10
    ELSE IF \E i \in 1..Len(token) : token[i] = "cn10"
         THEN LET left == SplitLeft(token)
                  right == SplitRight(token)
                  total == IF left = <<>> THEN 10 ELSE CnGet(left) * 10
              IN  IF right # <<>> THEN total + CnGet(right) ELSE total
    ELSE IF Len(token) = 1 /\ token[1] \in DOMAIN CN_NUM_MAP
         THEN CN_NUM_MAP[token[1]]
    ELSE None

\* _ROMAN_MAP
ROMAN_MAP ==
    [w \in {<<"I">>, <<"I","I">>, <<"I","I","I">>, <<"I","V">>, <<"V">>,
            <<"V","I">>, <<"V","I","I">>, <<"V","I","I","I">>, <<"I","X">>,
            <<"X">>} |->
        CASE w = <<"I">> -> 1 [] w = <<"I","I">> -> 2 [] w = <<"I","I","I">> -> 3
          [] w = <<"I","V">> -> 4 [] w = <<"V">> -> 5 [] w = <<"V","I">> -> 6
          [] w = <<"V","I","I">> -> 7 [] w = <<"V","I","I","I">> -> 8
          [] w = <<"I","X">> -> 9 [] w = <<"X">> -> 10]

roman_to_int(token) ==
    LET t == Upper(token) IN IF t \in DOMAIN ROMAN_MAP THEN ROMAN_MAP[t] ELSE None

\* the length of the longest prefix of s whose characters are all in cs,
\* at most max
RECURSIVE RunLen(_, _, _)
RunLen(s, cs, max) ==
    IF max = 0 \/ s = <<>> \/ s[1] \notin cs THEN 0
    ELSE 1 + RunLen(Tail(s), cs, max - 1)

DigitChars == {"0","1","2","3","4","5","6","7","8","9"}

\* the widest match of \d{1,MaxArabicRun} and of the CJK numeral pattern
MaxArabicRun == 2
MaxCnRun == 3

\* re.findall(r"\d{1,2}", s): greedy, left to right, not overlapping
RECURSIVE FindArabic(_)
FindArabic(s) ==
    IF s = <<>> THEN <<>>
    ELSE LET n == RunLen(s, DigitChars, MaxArabicRun) IN
         IF n = 0 THEN FindArabic(Tail(s))
         ELSE <<SubSeq(s, 1, n)>> \o FindArabic(Tail_(s, n + 1))

\* re.findall of the CJK numeral pattern, {1,3}
RECURSIVE FindCn(_)
FindCn(s) ==
    IF s = <<>> THEN <<>>
    ELSE LET n == RunLen(s, CnNumeralChars, MaxCnRun) IN
         IF n = 0 THEN FindCn(Tail(s))
         ELSE <<SubSeq(s, 1, n)>> \o FindCn(Tail_(s, n + 1))

\* the length of the word (\w+) that starts s
RECURSIVE WordLen(_)
WordLen(s) ==
    IF s = <<>> \/ ~IsWordChar(s[1]) THEN 0 ELSE 1 + WordLen(Tail(s))

\* re.findall(r"\b(?:I|II|...|X)\b", s, flags=re.I): between two \b the
\* alternatives match a whole word only
RECURSIVE FindRoman(_)
FindRoman(s) ==
    IF s = <<>> THEN <<>>
    ELSE LET n == WordLen(s) IN
         IF n = 0 THEN FindRoman(Tail(s))
         ELSE (IF Upper(SubSeq(s, 1, n)) \in DOMAIN ROMAN_MAP
               THEN <<SubSeq(s, 1, n)>> ELSE <<>>)
              \o FindRoman(Tail_(s, n + 1))

\* whether `v and 1 <= v <= 99`
SeqLow == 1
SeqHigh == 99
InSeqRange(v) == v # None /\ v # 0 /\ SeqLow <= v /\ v <= SeqHigh

extract_seq_tokens(s) ==
    LET ar == FindArabic(s)
        cn == FindCn(s)
        ro == FindRoman(s)
    IN  {IntToStr(StrToInt(ar[i])) : i \in {k \in 1..Len(ar) :
              SeqLow <= StrToInt(ar[k]) /\ StrToInt(ar[k]) <= SeqHigh}}
        \cup {IntToStr(chinese_numeral_to_int(cn[i])) : i \in {k \in 1..Len(cn) :
              InSeqRange(chinese_numeral_to_int(cn[k]))}}
        \cup {IntToStr(roman_to_int(ro[i])) : i \in {k \in 1..Len(ro) :
              InSeqRange(roman_to_int(ro[k]))}}

\* re.sub of the CJK numeral pattern with _rep_cn
RECURSIVE SubCn(_)
SubCn(s) ==
    IF s = <<>> THEN <<>>
    ELSE LET n == RunLen(s, CnNumeralChars, MaxCnRun) IN
         IF n = 0 THEN <<s[1]>> \o SubCn(Tail(s))
         ELSE LET v == chinese_numeral_to_int(SubSeq(s, 1, n)) IN
              (IF v # None THEN IntToStr(v) ELSE SubSeq(s, 1, n))
              \o SubCn(Tail_(s, n + 1))

\* re.sub of the Roman numeral pattern with _rep_rom
RECURSIVE SubRoman(_)
SubRoman(s) ==
    IF s = <<>> THEN <<>>
    ELSE LET n == WordLen(s) IN
         IF n = 0 THEN <<s[1]>> \o SubRoman(Tail(s))
         ELSE LET v == roman_to_int(SubSeq(s, 1, n)) IN
              (IF v # None THEN IntToStr(v) ELSE SubSeq(s, 1, n))
              \o SubRoman(Tail_(s, n + 1))

seq_normalize(s) == SubRoman(SubCn(s))

----------------------------------------------------------------------------
(* SpecTok: extract_seq_tokens and seq_normalize applied to strings built  *)
(* from pieces.                                                            *)

MaxTokPieces == 5

Game == <<"G","a","m","e"," ">>
YouXi == <<"you","xi">>

TokPieces ==
    {Game, YouXi, <<"1">>, <<"9">>, <<"2">>, <<"cn2">>, <<"cn10">>, <<"I">>}

InitTok == InitTokVars /\ InitNormVars /\ InitAliasVars /\ InitMainVars /\ InitMatchVars

\* one more piece is typed and the tokens of the string are extracted
TokInput(p) ==
    /\ tok_pieces < MaxTokPieces
    /\ tok_in' = tok_in \o p
    /\ tok_pieces' = tok_pieces + 1
    /\ tok_out' = extract_seq_tokens(tok_in')
    /\ tok_norm' = seq_normalize(tok_in')
    /\ UNCHANGED <<normVars, aliasVars, mainVars, matchVars>>

NextTok == \E p \in TokPieces : TokInput(p)

SpecTok == InitTok /\ [][NextTok]_vars

\* the strings of the decimal numbers 1..99, without leading zeros
CanonicalTokens == {IntToStr(v) : v \in SeqLow..SeqHigh}

\* the lengths of the maximal runs of Arabic digits of s
RECURSIVE DigitRuns(_)
DigitRuns(s) ==
    IF s = <<>> THEN {}
    ELSE LET n == RunLen(s, DigitChars, Len(s)) IN
         IF n = 0 THEN DigitRuns(Tail(s))
         ELSE {n} \cup DigitRuns(Tail_(s, n + 1))

\* C8: extract_seq_tokens returns only canonical decimal strings of 1..99 and
\* excludes release years: a string whose only numeral is a run of four Arabic
\* digits ("Game 1999") has no token, while "Game 2", "youxi" followed by the
\* CJK two, and "Game II" each give {"2"}
C8_YearsExcluded ==
    /\ tok_out \subseteq CanonicalTokens
    /\ (DigitRuns(tok_in) = {4} /\ FindCn(tok_in) = <<>>
          /\ FindRoman(tok_in) = <<>>) => tok_out = {}
    /\ tok_in = Game \o <<"1","9","9","9">> => tok_out = {}
    /\ tok_in = Game \o <<"2">> => tok_out = {<<"2">>}
    /\ tok_in = YouXi \o <<"cn2">> => tok_out = {<<"2">>}
    /\ tok_in = Game \o <<"I","I">> => tok_out = {<<"2">>}

----------------------------------------------------------------------------
(* The alias table: load_aliases and apply_alias                           *)
(* (src/rom_fuzzy_translate.py:32-68). A dict is the sequence of its       *)
(* <<key, value>> items in insertion order.                                *)

\* the keys of dict m
Keys(m) == {m[i][1] : i \in 1..Len(m)}

\* m[k] for a key k of dict m
Get(m, k) == m[CHOOSE i \in 1..Len(m) : m[i][1] = k][2]

\* m.setdefault(k, v): a key already there keeps its value
DictPutFirstWins(m, k, v) ==
    IF k \in Keys(m) THEN m ELSE Append(m, <<k, v>>)

\* m[k] = v: a key already there keeps its place and takes the new value
DictPut(m, k, v) ==
    IF k \in Keys(m)
    THEN [i \in 1..Len(m) |-> IF m[i][1] = k THEN <<k, v>> ELSE m[i]]
    ELSE Append(m, <<k, v>>)

\* norm(a).lower(), the key of a name
AliasKey(a) == Lower(norm(a))

\* the entries <<name, default>> load_aliases writes for one subject
\* v = [default, alias, others, alias_en], in the order it writes them
SubjectWrites(v) ==
    IF v.default = <<>> THEN <<>>
    ELSE <<<<v.default, v.default>>>>
         \o SelectSeq([i \in 1..Len(v.alias \o v.others) |->
                          <<(v.alias \o v.others)[i], v.default>>],
                      LAMBDA e : e[1] # <<>>)
         \o SelectSeq([i \in 1..Len(v.alias_en) |-> <<v.alias_en[i], v.default>>],
                      LAMBDA e : e[1] # <<>>)

\* the table after the entries ws are written into m, in order
RECURSIVE WriteAll(_, _)
WriteAll(m, ws) ==
    IF ws = <<>> THEN m
    ELSE WriteAll(DictPut(m, AliasKey(ws[1][1]), ws[1][2]), Tail(ws))

\* load_aliases for the parsed JSON data, a sequence of subjects
RECURSIVE load_aliases(_)
load_aliases(data) ==
    IF data = <<>> THEN <<>>
    ELSE WriteAll(load_aliases(SubSeq(data, 1, Len(data) - 1)),
                  SubjectWrites(data[Len(data)]))

\* re.sub(re.escape(a), can, s, flags=re.I): every match of a, left to
\* right, replaced by can; the empty pattern matches before every character
\* and at the end
RECURSIVE SubAllCI(_, _, _)
SubAllCI(s, a, can) ==
    IF a = <<>>
    THEN IF s = <<>> THEN can ELSE can \o <<s[1]>> \o SubAllCI(Tail(s), a, can)
    ELSE IF s = <<>> THEN <<>>
    ELSE IF MatchAt(Lower(s), 1, Lower(a))
         THEN can \o SubAllCI(Tail_(s, Len(a) + 1), a, can)
         ELSE <<s[1]>> \o SubAllCI(Tail(s), a, can)

apply_alias(s, m) ==
    IF m = <<>> THEN s
    ELSE LET ln == Lower(s) IN
         IF ln \in Keys(m) THEN Get(m, ln)
         ELSE IF \E i \in 1..Len(m) : Contains(ln, m[i][1])
              THEN LET i == CHOOSE i \in 1..Len(m) :
                                /\ Contains(ln, m[i][1])
                                /\ \A j \in 1..(i - 1) : ~Contains(ln, m[j][1])
                   IN  SubAllCI(s, m[i][1], m[i][2])
              ELSE s

----------------------------------------------------------------------------
(* SpecAlias: load_aliases, one entry of the JSON data at a time.          *)

MaxAliasWrites == 4

\* the default names of the subjects: two CJK titles
AliasDefaults == {<<"you">>, <<"xi">>}

\* the names listed under alias, others and alias-en: three spellings of one
\* key, a second key, and the empty name
AliasNames ==
    {<<"f","f">>, <<"F","F">>, <<"f","f","(","d","e","m","o",")">>, <<"g">>, <<>>}

InitAlias == InitAliasVars /\ InitNormVars /\ InitTokVars /\ InitMainVars /\ InitMatchVars

\* the loop reaches the next subject: no default, and the subject is skipped
AliasSkipSubject ==
    /\ al_default # <<>>
    /\ al_default' = <<>>
    /\ UNCHANGED <<al_writes, amap, normVars, tokVars, mainVars, matchVars>>

\* the loop reaches the next subject, and maps its default name to itself
AliasSubject(d) ==
    /\ Len(al_writes) < MaxAliasWrites
    /\ al_default' = d
    /\ al_writes' = Append(al_writes, <<d, d>>)
    /\ amap' = DictPut(amap, AliasKey(d), d)
    /\ UNCHANGED <<normVars, tokVars, mainVars, matchVars>>

\* the next name of the subject's alias, others or alias-en list: a name that
\* is not empty is mapped to the subject's default
AliasName(a) ==
    /\ al_default # <<>>
    /\ Len(al_writes) < MaxAliasWrites
    /\ a # <<>>
    /\ al_writes' = Append(al_writes, <<a, al_default>>)
    /\ amap' = DictPut(amap, AliasKey(a), al_default)
    /\ UNCHANGED <<al_default, normVars, tokVars, mainVars, matchVars>>

NextAlias ==
    \/ AliasSkipSubject
    \/ \E d \in AliasDefaults : AliasSubject(d)
    \/ \E a \in AliasNames : AliasName(a)

SpecAlias == InitAlias /\ [][NextAlias]_vars

\* the positions of the entries processed so far whose key is k
WritesOf(k) == {i \in 1..Len(al_writes) : AliasKey(al_writes[i][1]) = k}

\* C9 as stated: the first writer of a key wins: the table maps every key to
\* the canonical name of the entry processed first with that key
C9_FirstWriterWins ==
    \A k \in Keys(amap) : Get(amap, k) = al_writes[Min(WritesOf(k))][2]

\* C9, amended: the last writer of a key wins: the table holds exactly the
\* keys of the entries processed, each once, and maps each to the canonical
\* name of the entry processed last with that key
C9_LastWriterWins ==
    /\ Keys(amap) = {AliasKey(al_writes[i][1]) : i \in 1..Len(al_writes)}
    /\ Cardinality(Keys(amap)) = Len(amap)
    /\ \A k \in Keys(amap) : Get(amap, k) = al_writes[Max(WritesOf(k))][2]
    /\ amap = WriteAll(<<>>, al_writes)

\* two entries with one key and two canonical names have been processed
C9_Witness ==
    \E i, j \in 1..Len(al_writes) :
        /\ i < j
        /\ AliasKey(al_writes[i][1]) = AliasKey(al_writes[j][1])
        /\ al_writes[i][1] # al_writes[j][1]
        /\ al_writes[i][2] # al_writes[j][2]

----------------------------------------------------------------------------
(* Input parsing: parse_ls, load_csv, os.path.splitext                     *)
(* (src/rom_fuzzy_translate.py:80-104, 244).                               *)

\* the length of the run of whitespace that starts s
RECURSIVE SpaceRun(_)
SpaceRun(s) == IF s = <<>> \/ ~IsSpace(s[1]) THEN 0 ELSE 1 + SpaceRun(Tail(s))

\* the least run of whitespace re.split(r"\s{2,}", ln) splits at
MinColumnGap == 2

\* re.split(r"\s{2,}", ln): acc is the piece being read
RECURSIVE SplitColumns(_, _)
SplitColumns(s, acc) ==
    IF s = <<>> THEN <<acc>>
    ELSE LET n == SpaceRun(s) IN
         IF n >= MinColumnGap
         THEN <<acc>> \o SplitColumns(Tail_(s, n + 1), <<>>)
         ELSE SplitColumns(Tail(s), Append(acc, s[1]))

\* parse_ls keeping the first piece of a line only
RECURSIVE parse_ls_first(_)
parse_ls_first(lines) ==
    IF lines = <<>> THEN <<>>
    ELSE LET ln == Strip(lines[1]) IN
         (IF ln # <<>>
          THEN SubSeq(SelectSeq(SplitColumns(ln, <<>>), LAMBDA q : q # <<>>), 1, 1)
          ELSE <<>>)
         \o parse_ls_first(Tail(lines))

\* parse_ls: the pieces of every line that is not blank, the empty ones dropped
RECURSIVE parse_ls(_)
parse_ls(lines) ==
    IF lines = <<>> THEN <<>>
    ELSE LET ln == Strip(lines[1]) IN
         (IF ln # <<>>
          THEN SelectSeq(SplitColumns(ln, <<>>), LAMBDA q : q # <<>>)
          ELSE <<>>)
         \o parse_ls(Tail(lines))

\* load_csv without the test that a row has both names
RECURSIVE load_csv_any(_)
load_csv_any(rows) ==
    IF rows = <<>> THEN <<>>
    ELSE LET before == load_csv_any(SubSeq(rows, 1, Len(rows) - 1))
             row == rows[Len(rows)]
             en == Strip(row.en)
             cn == Strip(row.cn)
         IN  IF cn \notin Keys(before) THEN Append(before, <<cn, en>>) ELSE before

\* load_csv over the rows [cn, en] of the table: rows that lack a name are
\* skipped and the first row of a cn wins. The result is the dict cn2en as
\* its items in insertion order; cn_list is its keys in that order
RECURSIVE load_csv(_)
load_csv(rows) ==
    IF rows = <<>> THEN <<>>
    ELSE LET before == load_csv(SubSeq(rows, 1, Len(rows) - 1))
             row == rows[Len(rows)]
             en == Strip(row.en)
             cn == Strip(row.cn)
         IN  IF cn # <<>> /\ en # <<>> /\ cn \notin Keys(before)
             THEN Append(before, <<cn, en>>)
             ELSE before

\* the last position of character c in s, 0 when none
LastOf(s, c) ==
    IF \E i \in 1..Len(s) : s[i] = c
    THEN Max({i \in 1..Len(s) : s[i] = c})
    ELSE 0

\* os.path.splitext(rf)[0] or rf: the name without its extension; the last
\* dot starts the extension unless only dots lie between it and the last "/"
Stem(rf) ==
    LET sepIndex == LastOf(rf, "/")
        dotIndex == LastOf(rf, ".")
        root == IF dotIndex > sepIndex
                   /\ \E k \in (sepIndex + 1)..(dotIndex - 1) : rf[k] # "."
                THEN SubSeq(rf, 1, dotIndex - 1)
                ELSE rf
    IN  IF root # <<>> THEN root ELSE rf

----------------------------------------------------------------------------
(* Ranking: process.extract with fuzz.WRatio, best_match, top_candidates   *)
(* (src/rom_fuzzy_translate.py:136-141, 177-203).                          *)
(*                                                                         *)
(* fuzz.WRatio is a library function: the model takes its results as an    *)
(* input sc, the score of each candidate against the query, and requires   *)
(* only that it is a function of the two strings.  A score is a float in   *)
(* 0..100, kept as a whole number of 1/ScoreUnit points.                   *)

ScoreUnit == 2

\* int(score)
IntScore(raw) == raw \div ScoreUnit

\* the place of candidate i in the list process.extract returns: by score,
\* highest first, and by index among equal scores
RankOf(sc, i) ==
    1 + Cardinality({j \in DOMAIN sc : sc[j] > sc[i] \/ (sc[j] = sc[i] /\ j < i)})

\* process.extract(query_norm, cn_norm, scorer=fuzz.WRatio, limit=limit), as
\* the candidates' indices (1-based) in the order returned
Extract(sc, limit) ==
    LET n == Len(sc)
        m == IF limit < n THEN limit ELSE n
    IN  [r \in 1..m |-> CHOOSE i \in 1..n : RankOf(sc, i) = r]

\* digits_set, as main binds it: seq_utils.extract_seq_tokens under --seq,
\* the empty set otherwise
digits_set(use_seq, s) == IF use_seq THEN extract_seq_tokens(s) ELSE {}

\* bool as int, as Python compares tuples of bools
B2I(b) == IF b THEN 1 ELSE 0

\* key(t) of best_match for the candidate string cand_norm
MatchKey(use_seq, query_raw, query_norm, cand_norm) ==
    LET qd == digits_set(use_seq, query_raw)
        cd == digits_set(use_seq, cand_norm)
        exact == (cand_norm = query_norm)
        digit_ok == IF qd # {} THEN qd = cd ELSE TRUE
        digit_intersect == IF qd # {} /\ cd # {} /\ (qd \cap cd) # {} THEN 1 ELSE 0
    IN  <<B2I(exact), B2I(digit_ok), digit_intersect, Len(cand_norm)>>

\* tuple comparison a < b, lexicographic
RECURSIVE TupleLess(_, _)
TupleLess(a, b) ==
    IF a = <<>> \/ b = <<>> THEN a = <<>> /\ b # <<>>
    ELSE IF a[1] # b[1] THEN a[1] < b[1]
    ELSE TupleLess(Tail(a), Tail(b))

\* max(items, key=key): the first item no other item's key exceeds;
\* keys[k] is the key of items[k]
PyMax(items, keys) ==
    items[CHOOSE k \in 1..Len(items) :
            /\ \A j \in 1..Len(items) : ~TupleLess(keys[k], keys[j])
            /\ \A j \in 1..(k - 1) : TupleLess(keys[j], keys[k])]

\* the limit best_match passes to process.extract
BestMatchLimit == 8

\* best_match's result when the corpus is empty: no index, score 0 (the
\* model's indices are 1-based, so 0 stands for Python's -1)
NoIdx == 0

\* best_match(query_raw, query_norm, cn_norm) -> <<idx, score>>, idx 1-based
best_match(use_seq, query_raw, query_norm, cn_norm, sc) ==
    LET top == Extract(sc, BestMatchLimit) IN
    IF top = <<>> THEN <<NoIdx, 0>>
    ELSE LET best_score == IntScore(sc[top[1]])
             tied == SelectSeq(top, LAMBDA i : IntScore(sc[i]) = best_score)
             keys == [k \in 1..Len(tied) |->
                         MatchKey(use_seq, query_raw, query_norm, cn_norm[tied[k]])]
             best == PyMax(tied, keys)
         IN  <<best, IntScore(sc[best])>>

\* top_candidates(...): the list of (csv_cn, csv_en, score, cand_norm)
top_candidates(cn_norm, cn2en_, sc, limit) ==
    LET top == Extract(sc, limit) IN
    [r \in 1..Len(top) |->
        [csv_cn |-> cn2en_[top[r]][1], csv_en |-> cn2en_[top[r]][2],
         score |-> IntScore(sc[top[r]]), cand_norm |-> cn_norm[top[r]]]]

----------------------------------------------------------------------------
(* main (src/rom_fuzzy_translate.py:206-331) and ask_choice_multi          *)
(* (src/rom_fuzzy_translate.py:149-174).                                   *)

\* args.th, by default
Th == 90

\* the limit main passes to top_candidates
TopLimit == 6

\* Python's None, where a string is expected
NoneStr == <<"<None>">>

\* `not x` for x a string or None
Falsy(x) == x = NoneStr \/ x = <<>>

\* cn_norm_seq, as main builds it from cn_list
NormalizeCorpus(use_seq, items, m) ==
    [i \in 1..Len(items) |->
        IF use_seq
        THEN Lower(seq_normalize(apply_alias(norm(items[i][1]), m)))
        ELSE Lower(apply_alias(norm(items[i][1]), m))]

\* stem_n_seq of a stem
QueryNorm(stem, m) == Lower(seq_normalize(apply_alias(norm(stem), m)))

\* the test of the auto-accept branch, and the same test off by one
AutoAcceptStrict(score, th) == score > th
AutoAccept(score, th) == score >= th

\* the record main appends for title rf, given what best_match returned
\* (bm = <<idx, score>>) and the scores sc; `state` names the branch taken
\* (the spec's decision state; the code keeps no such field)
ScoreRecord(rf, bm, sc) ==
    LET stem == Stem(rf)
        idx == bm[1]
        csv_cn == IF idx >= 1 THEN cn2en[idx][1] ELSE <<>>
        csv_en == IF idx >= 1 THEN cn2en[idx][2] ELSE <<>>
        score == IF idx >= 1 THEN bm[2] ELSE 0
    IN  IF csv_en = <<>>
        THEN [rf |-> rf, stem |-> stem, csv_cn |-> <<>>, csv_en |-> <<>>,
              score |-> 0, candidates |-> <<>>, chosen |-> stem,
              state |-> "NO_MATCH"]
        ELSE IF AutoAccept(score, Th)
        THEN [rf |-> rf, stem |-> stem, csv_cn |-> csv_cn, csv_en |-> csv_en,
              score |-> score, candidates |-> <<>>, chosen |-> csv_en,
              state |-> "AUTO_ACCEPTED"]
        ELSE LET cands == top_candidates(cn_norm_seq, cn2en, sc, TopLimit) IN
             [rf |-> rf, stem |-> stem,
              csv_cn |-> IF cands # <<>> THEN cands[1].csv_cn ELSE <<>>,
              csv_en |-> IF cands # <<>> THEN cands[1].csv_en ELSE <<>>,
              score |-> score, candidates |-> cands, chosen |-> NoneStr,
              state |-> "PENDING_REVIEW"]

\* ask_choice_multi's answer to the reply ans, and to the name typed after
\* "m": a candidate's csv_en, the manual name, or None
AcceptWords == {<<"a">>, <<"1">>}
KeepWords == {<<"k">>, <<"k","e","e","p">>}
ManualWords == {<<"m">>, <<"m","a","n">>, <<"i">>, <<"m","a","n","u","a","l">>}

\* ask_choice_multi with the number typed taken as a 0-based index
ask_choice_multi_0(candidates, raw_ans, raw_manual) ==
    LET ans == Strip(raw_ans)
        a == Lower(ans)
        manual == Strip(raw_manual)
    IN  IF ans = <<>> THEN NoneStr
        ELSE IF a \in AcceptWords
             THEN IF candidates # <<>> THEN candidates[1].csv_en ELSE NoneStr
        ELSE IF a \in KeepWords THEN NoneStr
        ELSE IF a \in ManualWords
             THEN IF manual # <<>> THEN manual ELSE NoneStr
        ELSE IF \A k \in 1..Len(ans) : IsDigit(ans[k])
             THEN LET idx == StrToInt(ans) IN
                  IF 0 <= idx /\ idx < Len(candidates)
                  THEN candidates[idx + 1].csv_en ELSE NoneStr
        ELSE NoneStr

ask_choice_multi(candidates, raw_ans, raw_manual) ==
    LET ans == Strip(raw_ans)
        a == Lower(ans)
        manual == Strip(raw_manual)
    IN  IF ans = <<>> THEN NoneStr
        ELSE IF a \in AcceptWords
             THEN IF candidates # <<>> THEN candidates[1].csv_en ELSE NoneStr
        ELSE IF a \in KeepWords THEN NoneStr
        ELSE IF a \in ManualWords
             THEN IF manual # <<>> THEN manual ELSE NoneStr
        ELSE IF \A k \in 1..Len(ans) : IsDigit(ans[k])
             THEN LET idx == StrToInt(ans) - 1 IN
                  IF 0 <= idx /\ idx < Len(candidates)
                  THEN candidates[idx + 1].csv_en ELSE NoneStr
        ELSE NoneStr

\* ApplyDecision without the keep-original branch
ApplyDecisionNoKeep(rec, disp) ==
    IF Falsy(disp) THEN rec
    ELSE IF \E k \in 1..Len(rec.candidates) : rec.candidates[k].csv_en = disp
         THEN LET k == Min({j \in 1..Len(rec.candidates) :
                              rec.candidates[j].csv_en = disp})
              IN  [rec EXCEPT !.csv_cn = rec.candidates[k].csv_cn,
                              !.csv_en = rec.candidates[k].csv_en,
                              !.chosen = rec.candidates[k].csv_en]
         ELSE [rec EXCEPT !.chosen = disp]

\* the record after main applies the answer disp to the pending record rec
\* (lines 279-294)
ApplyDecision(rec, disp) ==
    IF Falsy(disp) THEN [rec EXCEPT !.chosen = rec.stem]
    ELSE IF \E k \in 1..Len(rec.candidates) : rec.candidates[k].csv_en = disp
         THEN LET k == Min({j \in 1..Len(rec.candidates) :
                              rec.candidates[j].csv_en = disp})
              IN  [rec EXCEPT !.csv_cn = rec.candidates[k].csv_cn,
                              !.csv_en = rec.candidates[k].csv_en,
                              !.chosen = rec.candidates[k].csv_en]
         ELSE [rec EXCEPT !.chosen = disp]

\* remaining, counted without the record shown
RemainingAfter(n, i) == n - i

\* remaining, as the review loop computes it at position i (1-based) of n
Remaining(n, i) == n - (i - 1)

\* xml.sax.saxutils.escape
RECURSIVE xesc(_)
xesc(s) ==
    IF s = <<>> THEN <<>>
    ELSE (CASE s[1] = "&" -> <<"&","a","m","p",";">>
            [] s[1] = "<" -> <<"&","l","t",";">>
            [] s[1] = ">" -> <<"&","g","t",";">>
            [] OTHER -> <<s[1]>>) \o xesc(Tail(s))

\* `x or y` for strings
Or(x, y) == IF Falsy(x) THEN y ELSE x

\* the <game> element written for a record: its <path> and, unless the name
\* is the stem, its <name> (None when omitted)
GameEntry(rec) ==
    LET name == Or(rec.chosen, rec.stem) IN
    [path |-> xesc(<<".", "/">> \o rec.rf),
     name |-> IF ~Falsy(name) /\ name # rec.stem THEN xesc(name) ELSE NoneStr]

\* the <game> elements of the records that have a <name> only
GameListNamed(recs) ==
    SelectSeq([k \in 1..Len(recs) |-> GameEntry(recs[k])],
              LAMBDA g : g.name # NoneStr)

\* the <game> elements written for the records recs, in order
GameList(recs) == [k \in 1..Len(recs) |-> GameEntry(recs[k])]

----------------------------------------------------------------------------
(* Spec: one run of main over a reference table, an alias file and a ROM   *)
(* list drawn from small pools.                                            *)

MaxCsvRows == 2
MaxRomLines == 1

\* the sequences over S of length at most n
SeqsUpTo(S, n) == UNION {[1..k -> S] : k \in 0..n}

GameEn == <<"G","a","m","e">>
Game2En == <<"G","a","m","e"," ","2">>

\* rows of the reference table: a title, its sequel in CJK numerals, and a
\* row that lacks its English name
CsvRowPool ==
    {[cn |-> YouXi, en |-> GameEn],
     [cn |-> YouXi \o <<"cn2">>, en |-> Game2En],
     [cn |-> <<"xi">>, en |-> <<>>]}

\* the alias file: missing, or one subject whose alias is "g"
AliasDataPool ==
    {<<>>,
     <<[default |-> YouXi, alias |-> <<<<"g">>>>, others |-> <<>>, alias_en |-> <<>>]>>}

\* lines of the ROM list: a title with an extension, a line of two columns
\* (an alias with a sequel number, and a title), a blank line, and an
\* indented line of two columns, the first with a blank in it, the gap a tab
\* and a blank
RomLinePool ==
    {YouXi \o <<".", "z">>,
     <<"g", "2", " ", " ">> \o YouXi,
     <<" ">>,
     <<"tab", "g", " ", "2", "tab", " ">> \o YouXi \o <<" ">>}

\* WRatio's results around the threshold: just below Th (int(score) is
\* Th - 1), Th, and just above Th
RawScores == {Th * ScoreUnit - 1, Th * ScoreUnit, Th * ScoreUnit + 1}

\* the score lists WRatio can give for a corpus: equal candidate strings
\* score equally against one query
ScoreLists(cn_norm) ==
    {sc \in [1..Len(cn_norm) -> RawScores] :
        \A i, j \in 1..Len(cn_norm) : cn_norm[i] = cn_norm[j] => sc[i] = sc[j]}

\* what the operator may type at the prompt, and after "m"
AnswerPool ==
    {<<>>, <<"a">>, <<"1">>, <<"2">>, <<"7">>, <<"K">>, <<"m">>, <<"z">>}
ManualPool == {<<>>, <<" ">>, <<"X">>, <<" ", "X">>, GameEn}

Init ==
    /\ InitNormVars /\ InitTokVars /\ InitAliasVars /\ InitMatchVars
    /\ pc = "load"
    /\ csv_rows \in SeqsUpTo(CsvRowPool, MaxCsvRows)
    /\ alias_data \in AliasDataPool
    /\ rom_lines \in SeqsUpTo(RomLinePool, MaxRomLines)
    /\ seq \in BOOLEAN
    /\ cn2en = <<>>
    /\ alias_map = <<>>
    /\ cn_norm_seq = <<>>
    /\ roms = <<>>
    /\ results = <<>>
    /\ pending_idx = <<>>
    /\ counters = [auto_ok |-> 0, prompted |-> 0]
    /\ best_hist = <<>>
    /\ review_i = 1
    /\ presented = <<>>
    /\ reply = [ans |-> <<>>, manual |-> <<>>]
    /\ out = <<>>

\* lines 220-237: the tables are loaded and the ROM list is parsed
Load ==
    /\ pc = "load"
    /\ cn2en' = load_csv(csv_rows)
    /\ alias_map' = load_aliases(alias_data)
    /\ cn_norm_seq' = NormalizeCorpus(seq, cn2en', alias_map')
    /\ roms' = parse_ls(rom_lines)
    /\ pc' = IF roms' = <<>> THEN "exit2" ELSE "score"
    /\ UNCHANGED <<csv_rows, alias_data, rom_lines, seq, results, pending_idx,
                   counters, best_hist, review_i, presented, reply, out>>
    /\ UNCHANGED <<normVars, tokVars, aliasVars, matchVars>>

\* lines 243-270: one pass of the scoring loop, for the next title
Score ==
    /\ pc = "score"
    /\ Len(results) < Len(roms)
    /\ \E rf \in {roms[Len(results) + 1]} :
       \E query_norm \in {QueryNorm(Stem(rf), alias_map)} :
       \E sc \in ScoreLists(cn_norm_seq) :
       \E bm \in {best_match(seq, Stem(rf), query_norm, cn_norm_seq, sc)} :
       \E rec \in {ScoreRecord(rf, bm, sc)} :
              /\ results' = Append(results, rec)
              /\ best_hist' = Append(best_hist, bm)
              /\ pending_idx' = IF rec.state = "PENDING_REVIEW"
                                 THEN Append(pending_idx, Len(results'))
                                 ELSE pending_idx
              /\ counters' =
                    [auto_ok |-> counters.auto_ok
                                 + (IF rec.state = "AUTO_ACCEPTED" THEN 1 ELSE 0),
                     prompted |-> counters.prompted
                                 + (IF rec.state = "PENDING_REVIEW" THEN 1 ELSE 0)]
              /\ pc' = IF Len(results') = Len(roms) THEN "review" ELSE "score"
    /\ UNCHANGED <<csv_rows, alias_data, rom_lines, seq, cn2en, alias_map,
                   cn_norm_seq, roms, review_i, presented, reply, out>>
    /\ UNCHANGED <<normVars, tokVars, aliasVars, matchVars>>

\* lines 275-278, 153-157: the next pending record is shown to the operator
Present ==
    /\ pc = "review"
    /\ review_i <= Len(pending_idx)
    /\ presented' = Append(presented,
                           <<pending_idx[review_i],
                             Remaining(Len(pending_idx), review_i)>>)
    /\ pc' = "ask"
    /\ UNCHANGED <<csv_rows, alias_data, rom_lines, seq, cn2en, alias_map,
                   cn_norm_seq, roms, results, pending_idx, counters, best_hist,
                   review_i, reply, out>>
    /\ UNCHANGED <<normVars, tokVars, aliasVars, matchVars>>

\* lines 157-174, 279-295: the operator replies ans (and manual, when asked
\* for a name) and the answer is applied to the record shown
Decide(ans, manual) ==
    /\ pc = "ask"
    /\ Lower(Strip(ans)) \notin ManualWords => manual = <<>>
    /\ LET ridx == pending_idx[review_i]
           rec == results[ridx]
           disp == ask_choice_multi(rec.candidates, ans, manual)
       IN  results' = [results EXCEPT ![ridx] = ApplyDecision(rec, disp)]
    /\ reply' = [ans |-> ans, manual |-> manual]
    /\ review_i' = review_i + 1
    /\ pc' = "review"
    /\ UNCHANGED <<csv_rows, alias_data, rom_lines, seq, cn2en, alias_map,
                   cn_norm_seq, roms, pending_idx, counters, best_hist,
                   presented, out>>
    /\ UNCHANGED <<normVars, tokVars, aliasVars, matchVars>>

\* lines 309-322: the catalog is written
Output ==
    /\ pc = "review"
    /\ review_i > Len(pending_idx)
    /\ out' = GameList(results)
    /\ pc' = "done"
    /\ UNCHANGED <<csv_rows, alias_data, rom_lines, seq, cn2en, alias_map,
                   cn_norm_seq, roms, results, pending_idx, counters, best_hist,
                   review_i, presented, reply>>
    /\ UNCHANGED <<normVars, tokVars, aliasVars, matchVars>>

Next ==
    \/ Load
    \/ Score
    \/ Present
    \/ \E ans \in AnswerPool, manual \in ManualPool : Decide(ans, manual)
    \/ Output

Spec == Init /\ [][Next]_vars

----------------------------------------------------------------------------
(* Properties of a run of main.                                            *)

\* the positions in results of the records in the pending queue
PendingSet == {pending_idx[k] : k \in 1..Len(pending_idx)}

\* the positions in results of the records the review has not decided yet
Undecided == {pending_idx[k] : k \in review_i..Len(pending_idx)}

\* whether the reference table has a row with both names
CorpusHasNamedCandidate ==
    \E k \in 1..Len(csv_rows) :
        Strip(csv_rows[k].cn) # <<>> /\ Strip(csv_rows[k].en) # <<>>

\* C1: a record whose best candidate has a primary name and scores S: with
\* S >= Th (S = Th included) it is auto-accepted with the candidate's primary
\* name as chosen name; with S < Th (S = Th - 1 included) it is in the
\* pending queue and its chosen name is unset until the review decides it
C1_Threshold ==
    \A j \in 1..Len(results) :
        LET r == results[j]
            idx == best_hist[j][1]
            S == best_hist[j][2]
        IN  (idx >= 1 /\ cn2en[idx][2] # <<>>) =>
              /\ S >= Th => /\ r.state = "AUTO_ACCEPTED"
                            /\ r.chosen = cn2en[idx][2]
                            /\ j \notin PendingSet
              /\ S < Th => /\ r.state = "PENDING_REVIEW"
                           /\ j \in PendingSet
                           /\ j \in Undecided => r.chosen = NoneStr

\* a run where a score of exactly Th was accepted and a score of Th - 1 was
\* queued
C1_Witness ==
    /\ \E j \in 1..Len(results) :
          /\ best_hist[j][2] = Th
          /\ results[j].state = "AUTO_ACCEPTED"
          /\ results[j].chosen = cn2en[best_hist[j][1]][2]
    /\ \E j \in 1..Len(results) :
          /\ best_hist[j][2] = Th - 1
          /\ j \in PendingSet
          /\ results[j].chosen = NoneStr

\* C3: a record is NO_MATCH exactly when the reference table yields no
\* candidate with a primary name; such a record is not auto-accepted, not
\* queued, has score 0 and the original title (the stem) as chosen name
C3_NoMatch ==
    \A j \in 1..Len(results) :
        LET r == results[j] IN
        /\ r.state = "NO_MATCH" <=> ~CorpusHasNamedCandidate
        /\ r.state = "NO_MATCH" =>
              /\ j \notin PendingSet
              /\ r.score = 0
              /\ r.chosen = Stem(roms[j])
              /\ r.csv_en = <<>>
              /\ counters.auto_ok = 0

\* a finished run over a table whose rows all lack a name, for a title with
\* an extension
C3_Witness ==
    /\ pc = "done"
    /\ csv_rows # <<>>
    /\ \E j \in 1..Len(results) :
          results[j].state = "NO_MATCH" /\ results[j].chosen # results[j].rf

\* C4: when the catalog is written every record has a chosen name, neither
\* None nor empty, whatever the operator replied; no record is left pending
C4_ChosenAtOutput ==
    pc = "done" =>
        /\ Undecided = {}
        /\ \A j \in 1..Len(results) :
              results[j].chosen # NoneStr /\ results[j].chosen # <<>>

\* a finished run with two reviewed records, the last reply an empty name
\* typed after "m"
C4_Witness ==
    /\ pc = "done"
    /\ Len(pending_idx) = 2
    /\ reply = [ans |-> <<"m">>, manual |-> <<>>]

\* C5: every input title appears once in the catalog, in input order: the
\* <path> entries written are the titles, and the records are the titles'
\* records, in order, at every moment of the run
C5_RoundTrip ==
    /\ Len(results) <= Len(roms)
    /\ \A j \in 1..Len(results) : results[j].rf = roms[j]
    /\ pc \in {"review", "ask", "done"} => Len(results) = Len(roms)
    /\ pc = "done" =>
          /\ Len(out) = Len(roms)
          /\ \A j \in 1..Len(roms) : out[j].path = xesc(<<".", "/">> \o roms[j])

\* a finished run over two titles, one reviewed and kept as it was, one
\* auto-accepted
C5_Witness ==
    /\ pc = "done"
    /\ Len(roms) = 2
    /\ \E j \in PendingSet : out[j].name = NoneStr
    /\ \E j \in 1..Len(results) : results[j].state = "AUTO_ACCEPTED"

\* C6: the review shows the pending records one at a time in the order they
\* were queued (input order), each once and no other record; the remaining
\* count shown is the number of pending records not yet decided, the one
\* shown included, so it is 1 at the last prompt; and a record is decided
\* before the next one is shown
C6_ReviewOrder ==
    /\ \A k \in 1..Len(presented) :
          /\ presented[k][1] = pending_idx[k]
          /\ results[presented[k][1]].state = "PENDING_REVIEW"
          /\ presented[k][2] = Len(pending_idx) - k + 1
    /\ \A k \in 1..(Len(pending_idx) - 1) : pending_idx[k] < pending_idx[k + 1]
    /\ pc = "ask" =>
          /\ Len(presented) = review_i
          /\ presented[review_i][2] = Cardinality(Undecided)
    /\ pc # "ask" => Len(presented) = review_i - 1
    /\ \A j \in PendingSet :
          j \in Undecided <=> results[j].chosen = NoneStr
    /\ pc = "done" =>
          /\ Len(presented) = Len(pending_idx)
          /\ presented # <<>> => presented[Len(presented)][2] = 1

\* a finished run in which two records were shown
C6_Witness == pc = "done" /\ Len(presented) = 2

\* the record the latest reply was applied to
Decided == results[pending_idx[review_i - 1]]

\* C7: the chosen name after a reply: "a" gives the first candidate's
\* primary name; a number i within the list gives the i-th candidate's;
\* keep, the empty reply, a number out of range, an unknown reply and an
\* empty manual name give the original title; a manual name gives that name
\* (the name is the line typed, less the blanks around it)
C7_Decision ==
    (pc \in {"review", "done"} /\ review_i > 1) =>
        LET r == Decided
            c == r.candidates
        IN  /\ reply.ans = <<"a">> => r.chosen = c[1].csv_en
            /\ reply.ans = <<"1">> => r.chosen = c[1].csv_en
            /\ (reply.ans = <<"2">> /\ Len(c) >= 2) => r.chosen = c[2].csv_en
            /\ (reply.ans = <<"2">> /\ Len(c) < 2) => r.chosen = r.stem
            /\ reply.ans \in {<<"7">>, <<"K">>, <<>>, <<"z">>} => r.chosen = r.stem
            /\ (reply.ans = <<"m">> /\ reply.manual \in {<<>>, <<" ">>})
                  => r.chosen = r.stem
            /\ (reply.ans = <<"m">> /\ reply.manual \in {<<"X">>, GameEn})
                  => r.chosen = reply.manual
            /\ (reply.ans = <<"m">> /\ reply.manual = <<" ", "X">>)
                  => r.chosen = <<"X">>

\* the second of two candidates was just accepted by its number
C7_Witness ==
    /\ pc = "review" /\ review_i > 1
    /\ reply.ans = <<"2">>
    /\ Len(Decided.candidates) >= 2
    /\ Decided.chosen = Decided.candidates[2].csv_en
    /\ Decided.chosen # Decided.candidates[1].csv_en

\* the columns of a stripped line ln as <<first, last>> positions: the
\* longest stretches that start and end with a character that is not
\* whitespace and hold no two whitespace characters in a row
ColumnSpans(ln) ==
    {ab \in (1..Len(ln)) \X (1..Len(ln)) :
        /\ ab[1] <= ab[2]
        /\ ~IsSpace(ln[ab[1]]) /\ ~IsSpace(ln[ab[2]])
        /\ \A k \in ab[1]..(ab[2] - 1) : ~(IsSpace(ln[k]) /\ IsSpace(ln[k + 1]))
        /\ ab[1] = 1 \/ (IsSpace(ln[ab[1] - 1]) /\ IsSpace(ln[ab[1] - 2]))
        /\ ab[2] = Len(ln) \/ (IsSpace(ln[ab[2] + 1]) /\ IsSpace(ln[ab[2] + 2]))}

\* the columns of a line of the ROM list, left to right
ColumnsOf(line) ==
    LET ln == Strip(line)
        spans == ColumnSpans(ln)
    IN  [r \in 1..Cardinality(spans) |->
            LET ab == CHOOSE x \in spans :
                          Cardinality({y \in spans : y[1] < x[1]}) = r - 1
            IN  SubSeq(ln, ab[1], ab[2])]

\* the columns of all the lines, line by line
RECURSIVE AllColumns(_)
AllColumns(lines) ==
    IF lines = <<>> THEN <<>>
    ELSE ColumnsOf(lines[1]) \o AllColumns(Tail(lines))

\* the first column of every line that is not blank
RECURSIVE FirstColumns(_)
FirstColumns(lines) ==
    IF lines = <<>> THEN <<>>
    ELSE (IF ColumnsOf(lines[1]) = <<>> THEN <<>>
          ELSE <<ColumnsOf(lines[1])[1]>>)
         \o FirstColumns(Tail(lines))

\* C11 as stated: only the first column of a line is a title: the titles
\* are the first columns of the lines that are not blank, one per line
C11_FirstColumnOnly ==
    pc # "load" => roms = FirstColumns(rom_lines)

\* C11, amended: every column of a line is a title: the titles are the
\* columns of the lines that are not blank, line by line and left to right,
\* and each gets its own record
C11_EveryColumn ==
    /\ pc # "load" => roms = AllColumns(rom_lines)
    /\ pc \in {"review", "ask", "done"} =>
          /\ Len(results) = Len(AllColumns(rom_lines))
          /\ \A j \in 1..Len(results) : results[j].rf = AllColumns(rom_lines)[j]

\* a finished run over one line of two columns: two records, the second
\* for the text of the second column
C11_Witness ==
    /\ pc = "done"
    /\ Len(rom_lines) = 1
    /\ Len(ColumnsOf(rom_lines[1])) = 2
    /\ Len(results) = 2
    /\ results[2].rf = YouXi
    /\ Len(out) = 2

\* C12: for every record routed to review the first retained candidate is
\* the reference entry best_match selected for it, ties at the top score
\* included; and so is the detected match recorded for it, until the
\* review decides the record
C12_TopIsBest ==
    \A j \in PendingSet :
        LET r == results[j]
            picked == cn2en[best_hist[j][1]]
        IN  /\ r.candidates # <<>>
            /\ r.candidates[1].csv_cn = picked[1]
            /\ r.candidates[1].csv_en = picked[2]
            /\ j \in Undecided => (r.csv_cn = picked[1] /\ r.csv_en = picked[2])

----------------------------------------------------------------------------
(* SpecMatch: best_match applied to corpora of up to MaxCands candidates.  *)

MaxCands == 9

\* the queries: a title with a sequel number, and another sequel
MatchQueries == {<<"g", "2">>, <<"g", "3">>}

\* normalized candidate strings: a short title with a sequel number, and a
\* longer title with another number
MatchPool == {<<"g", "2">>, <<"g", "3", "b">>}

\* WRatio's results: two floats with one int(score)
MatchScores == {Th * ScoreUnit, Th * ScoreUnit + 1}

\* the scores of the corpus, candidate by candidate
ScoresOf(cn_norm, score) == [i \in 1..Len(cn_norm) |-> score[cn_norm[i]]]

InitMatch ==
    /\ InitNormVars /\ InitTokVars /\ InitAliasVars /\ InitMainVars
    /\ m_seq \in BOOLEAN
    /\ m_query \in MatchQueries
    /\ m_query_norm = QueryNorm(m_query, <<>>)
    /\ m_score \in [MatchPool -> MatchScores]
    /\ m_cn_norm = <<>>
    /\ m_best = best_match(m_seq, m_query, m_query_norm, <<>>, <<>>)

\* the corpus gets one more candidate and best_match is applied to it
MatchCandidate(c) ==
    /\ Len(m_cn_norm) < MaxCands
    /\ m_cn_norm' = Append(m_cn_norm, c)
    /\ \E sc \in {ScoresOf(m_cn_norm', m_score)} :
          m_best' = best_match(m_seq, m_query, m_query_norm, m_cn_norm', sc)
    /\ UNCHANGED <<m_seq, m_query, m_query_norm, m_score>>
    /\ UNCHANGED <<normVars, tokVars, aliasVars, mainVars>>

NextMatch == \E c \in MatchPool : MatchCandidate(c)

SpecMatch == InitMatch /\ [][NextMatch]_vars

\* the candidates of the whole corpus whose int(score) is the maximum
TiedAll ==
    LET sc == ScoresOf(m_cn_norm, m_score) IN
    {i \in 1..Len(m_cn_norm) :
        \A j \in 1..Len(m_cn_norm) : IntScore(sc[j]) <= IntScore(sc[i])}

\* the tie-break key of candidate i of the corpus
KeyOf(i) == MatchKey(m_seq, m_query, m_query_norm, m_cn_norm[i])

\* C2: for a nonempty corpus best_match returns a candidate with the
\* maximum score whose key (exact match, token set equal, token shared,
\* length) no candidate with the maximum score exceeds, however many
\* candidates are tied and wherever they sit in the corpus; so when an
\* exact match is among them, an exact match is returned
C2_BestOfAllTied ==
    m_cn_norm # <<>> =>
        /\ m_best[1] \in TiedAll
        /\ \A i \in TiedAll : ~TupleLess(KeyOf(m_best[1]), KeyOf(i))
        /\ (\E i \in TiedAll : m_cn_norm[i] = m_query_norm)
              => m_cn_norm[m_best[1]] = m_query_norm

----------------------------------------------------------------------------
(* SpecNorm: norm applied to strings built from pieces.                    *)

MaxNormPieces == 7

NormPieces ==
    {<<"(">>, <<")">>, <<"[">>, <<"]">>, <<"d","e","m","o">>, <<" ">>, <<"'">>}

\* one more piece is typed and the string is normalized, once and again
NormInput(p) ==
    /\ norm_pieces < MaxNormPieces
    /\ norm_in' = norm_in \o p
    /\ norm_pieces' = norm_pieces + 1
    /\ norm_out' = norm(norm_in')
    /\ norm_out2' = norm(norm_out')
    /\ UNCHANGED <<tokVars, aliasVars, mainVars, matchVars>>

NextNorm == \E p \in NormPieces : NormInput(p)

InitNorm == InitNormVars /\ InitTokVars /\ InitAliasVars /\ InitMainVars /\ InitMatchVars

SpecNorm == InitNorm /\ [][NextNorm]_vars

\* C10: normalization is idempotent: norm(norm(s)) = norm(s) for every input s
C10_Idempotent == norm_out2 = norm_out

=============================================================================
